---- MODULE Spec2Model ----
(***************************************************************************)
(* CloudStorageUploadService (src/v2/services/cloud-storage/upload.ts):    *)
(* the start/finish upload workflow of one user, run by several concurrent *)
(* requests.  Every await of the service is a step of its own, so that the *)
(* requests interleave exactly where the code yields.                      *)
(*                                                                         *)
(* JavaScript strings are sequences of one-character strings; null,        *)
(* undefined and "" are all the empty sequence, because every consumer in  *)
(* this file (`x || undefined`, `!x`, `Number(x) || 0`) treats the three   *)
(* alike.                                                                  *)
(***************************************************************************)
EXTENDS Integers, Sequences, FiniteSets, TLC

\* ---------------------------------------------------------------- bounds
NumProcs == 2
MaxFiles == 3
MaxDay == 1

Procs == 1..NumProcs
FileUUIDs == 1..MaxFiles
\* finish may also be called with an id no start ever issued; one such id
\* stands for all of them
ForgedUUID == 0

\* ------------------------------------------------- configuration values
\* CloudStorage.concurrent and CloudStorage.totalSize (constants/Config)
Concurrent == 2
TotalSize == 3
\* the TTL handed to RedisService.hmset
SessionTTL == 60 * 20

FileSizes == {1, 2}
FileNames == { <<"a", ".", "p", "n", "g">> }
DirectoryPaths == { "/docs/" }
\* null / undefined / "" of a JavaScript string
Null == << >>
\* a missing directory path or resource type (these two are kept as atoms)
NoAtom == ""
NaN == -1
UserUUID == "u1"
PrefixPath == "cloud-storage"
OssDomain == "https://oss.example"
ConvertRegion == "cn-hz"

\* ---------------------------------------------------- pure conversions
Digits == <<"0", "1", "2", "3", "4", "5", "6", "7", "8", "9">>

DigitValue(c) == (CHOOSE i \in 1..10 : Digits[i] = c) - 1

RECURSIVE NumToStr(_)
\* String(n) for a non-negative integer
NumToStr(n) ==
    IF n < 10 THEN << Digits[n + 1] >>
    ELSE NumToStr(n \div 10) \o << Digits[(n % 10) + 1] >>

RECURSIVE StrToNum(_)
\* Number(s) for a string of decimal digits ("" is 0)
StrToNum(s) ==
    IF s = << >> THEN 0
    ELSE 10 * StrToNum(SubSeq(s, 1, Len(s) - 1)) + DigitValue(s[Len(s)])

\* Number(x || undefined): a missing or empty field is NaN
NumberOrNaN(x) == IF x = Null THEN NaN ELSE StrToNum(x)

\* Number(x) || 0: a missing field, NaN and 0 are all 0
NumberOrZero(x) == IF x = Null THEN 0 ELSE StrToNum(x)

\* path.extname: from the last "." on, unless there is none or it leads the name
ExtName(name) ==
    LET dots == { i \in 1..Len(name) : name[i] = "." } IN
    IF dots = {} THEN << >>
    ELSE LET last == CHOOSE i \in dots : \A j \in dots : j <= i IN
         IF last = 1 THEN << >> ELSE SubSeq(name, last, Len(name))

\* format("yyyy-MM/dd")(Date.now()); day 0 is 2021-10-31
DatePath(d) ==
    IF d = 0 THEN <<2021, 10, 31>> ELSE <<2021, 11, d>>

generateOSSFilePath(fileName, fileUUID, d) ==
    << PrefixPath, DatePath(d), fileUUID, fileUUID, ExtName(fileName) >>

\* CloudStorageFileService.getFileResourceTypeByFileName
getFileResourceTypeByFileName(fileName) ==
    IF ExtName(fileName) = <<".", "p", "p", "t", "x">>
    THEN "WhiteboardProjector" ELSE "NormalResources"

whiteboardResourceType == { "WhiteboardConvert", "WhiteboardProjector" }

generateFilePayload(fileResourceType) ==
    IF fileResourceType \in whiteboardResourceType
    THEN { <<"region", ConvertRegion>>, <<"convertStep", "None">> }
    ELSE {}

\* ------------------------------------------------------------- state
VARIABLES
    pc,        \* where each request is in start / finish
    local,     \* the local variables of each request
    redis,     \* RedisKey.cloudStorageFileInfo(userUUID, *) -> hash + ttl
    nextUUID,  \* v4(): the next unused fileUUID
    dirs,      \* the user's existing directories
    objects,   \* the paths that exist in the object store
    db,        \* committed rows: cloud_storage_files, _user_files, _configs
    tx,        \* the uncommitted writes of each request's DBTransaction
    day,       \* the date of Date.now()
    issued,    \* history: what start returned (and stored) for each fileUUID
    returned   \* the call that the last step ended, and its outcome

vars == << pc, local, redis, nextUUID, dirs, objects, db, tx, day, issued, returned >>

StartPcs == { "s_usage", "s_scan", "s_sum", "s_dir", "s_hmset" }
FinishPcs == { "f_dir", "f_oss", "f_usage", "f_write", "f_del", "f_commit", "f_rollback" }

NoLocal ==
    [ op |-> "none", fileName |-> Null, fileSize |-> 0, dir |-> NoAtom,
      fileUUID |-> ForgedUUID, resType |-> NoAtom, totalUsage |-> 0,
      uploadingFiles |-> {}, keys |-> {}, acc |-> 0, ossFilePath |-> << >> ]

NoReturn == [ op |-> "none", fileUUID |-> ForgedUUID, result |-> "none" ]

NoTx == [ files |-> {}, userFiles |-> {}, configs |-> {} ]

Init ==
    /\ pc = [ p \in Procs |-> "idle" ]
    /\ local = [ p \in Procs |-> NoLocal ]
    /\ redis = << >>
    /\ nextUUID = 1
    /\ dirs = DirectoryPaths
    /\ objects = {}
    /\ db = [ files |-> {}, userFiles |-> {}, total_usage |-> Null, upserts |-> {} ]
    /\ tx = [ p \in Procs |-> NoTx ]
    /\ day = 0
    /\ issued = << >>
    /\ returned = NoReturn

\* ------------------------------------------------- the ephemeral store
Live == DOMAIN redis

\* RedisService.scan(pattern, count, true): the user's live keys, at most count
Scan(count) ==
    LET n == IF Cardinality(Live) < count THEN Cardinality(Live) ELSE count
    IN  { S \in SUBSET Live : Cardinality(S) = n }

\* RedisService.hmget(key, field): null when the key or field is gone
Hmget(f, field) ==
    IF f \in Live THEN redis[f][field]
    ELSE IF field \in { "fileName", "fileSize" } THEN Null ELSE NoAtom

HmgetFileInfo(f) ==
    << Hmget(f, "fileName"), Hmget(f, "fileSize"),
       Hmget(f, "targetDirectoryPath"), Hmget(f, "fileResourceType") >>

RedisDel(f) == [ k \in Live \ {f} |-> redis[k] ]

\* ------------------------------------------------ the service's helpers
\* mutant: the limit compared with > for >=
assertConcurrentLimitStrict(uploadingFiles) ==
    Cardinality(uploadingFiles) > Concurrent

\* assertConcurrentLimit throws on TRUE
assertConcurrentLimit(uploadingFiles) ==
    Cardinality(uploadingFiles) >= Concurrent

\* getTotalUsageByUpdated: the candidate total; throws when Exceeds(total)
getTotalUsageByUpdated(total_usage, currentFileSize) ==
    NumberOrZero(total_usage) + currentFileSize

\* mutant: the limit is off by one
ExceedsOffByOne(totalUsage) == totalUsage > TotalSize + 1

\* mutant: the limit itself is refused
ExceedsOrEqual(totalUsage) == totalUsage >= TotalSize

\* the comparison of both capacity checks with CloudStorage.totalSize
Exceeds(totalUsage) == totalUsage > TotalSize

\* mutant: the missing-field check left out
getFileInfoByRedisUnchecked(fileInfo) ==
    [ found |-> TRUE,
      fileName |-> fileInfo[1], fileSize |-> NumberOrNaN(fileInfo[2]),
      targetDirectoryPath |-> fileInfo[3], fileResourceType |-> fileInfo[4] ]

\* getFileInfoByRedis: the parsed session, found = FALSE when it throws
getFileInfoByRedis(fileInfo) ==
    LET fileName == fileInfo[1]
        fileSize == NumberOrNaN(fileInfo[2])
        targetDirectoryPath == fileInfo[3]
        fileResourceType == fileInfo[4]
    IN  [ found |-> ~ ( fileName = Null \/ fileSize = NaN
                        \/ targetDirectoryPath = NoAtom \/ fileResourceType = NoAtom ),
          fileName |-> fileName, fileSize |-> fileSize,
          targetDirectoryPath |-> targetDirectoryPath,
          fileResourceType |-> fileResourceType ]

\* mutant: the cloud_storage_user_files insert left out
insertFileNoLink(fileInfo) ==
    [ files |-> { [ file_name |-> fileInfo.fileName,
                    file_size |-> fileInfo.fileSize,
                    file_url |-> fileInfo.fileURL,
                    file_uuid |-> fileInfo.fileUUID,
                    directory_path |-> fileInfo.directoryPath,
                    resource_type |-> fileInfo.fileResourceType,
                    payload |-> generateFilePayload(fileInfo.fileResourceType) ] },
      userFiles |-> {} ]

\* mutant: the size of the row is not the size of the session
insertFileNoSize(fileInfo) ==
    [ files |-> { [ file_name |-> fileInfo.fileName,
                    file_size |-> 0,
                    file_url |-> fileInfo.fileURL,
                    file_uuid |-> fileInfo.fileUUID,
                    directory_path |-> fileInfo.directoryPath,
                    resource_type |-> fileInfo.fileResourceType,
                    payload |-> generateFilePayload(fileInfo.fileResourceType) ] },
      userFiles |-> { [ user_uuid |-> UserUUID, file_uuid |-> fileInfo.fileUUID ] } ]

\* insertFile: the two rows it asks the DAOs to insert
insertFile(fileInfo) ==
    [ files |-> { [ file_name |-> fileInfo.fileName,
                    file_size |-> fileInfo.fileSize,
                    file_url |-> fileInfo.fileURL,
                    file_uuid |-> fileInfo.fileUUID,
                    directory_path |-> fileInfo.directoryPath,
                    resource_type |-> fileInfo.fileResourceType,
                    payload |-> generateFilePayload(fileInfo.fileResourceType) ] },
      userFiles |-> { [ user_uuid |-> UserUUID, file_uuid |-> fileInfo.fileUUID ] } ]

\* updateTotalUsage: the row it upserts
updateTotalUsage(totalUsage) ==
    { [ user_uuid |-> UserUUID, total_usage |-> NumToStr(totalUsage) ] }

\* ------------------------------------------------- request bookkeeping
Goto(p, label) == pc' = [ pc EXCEPT ![p] = label ]

\* the request of p, whose locals are l, ends with res
Return(p, l, res) ==
    /\ pc' = [ pc EXCEPT ![p] = "idle" ]
    /\ local' = [ local EXCEPT ![p] = NoLocal ]
    /\ returned' = [ op |-> l.op, fileUUID |-> l.fileUUID, result |-> res ]

\* the request of p throws err
Reject(p, err) == Return(p, local[p], err)

\* the request of p goes on
Continue == returned' = NoReturn

\* CloudStorageDirectoryService.assertExists throws on FALSE
DirectoryExists(directoryPath) == directoryPath \in dirs

StartsInFlight == Cardinality({ q \in Procs : pc[q] \in StartPcs })

\* ---------------------------------------------------------------- start
\* start is called and runs up to the scan of assertConcurrentLimit
StartCall(p, fileName, fileSize, targetDirectoryPath) ==
    /\ pc[p] = "idle"
    /\ nextUUID + StartsInFlight <= MaxFiles
    /\ \E uploadingFiles \in Scan(Concurrent + 1) :
         LET me == [ NoLocal EXCEPT !.op = "start", !.fileName = fileName,
                                    !.fileSize = fileSize,
                                    !.dir = targetDirectoryPath ]
         IN  IF assertConcurrentLimit(uploadingFiles)
             THEN Return(p, me, "UploadConcurrentLimit")
             ELSE /\ local' = [ local EXCEPT ![p] = me ]
                  /\ Goto(p, "s_usage")
                  /\ Continue
    /\ UNCHANGED << redis, nextUUID, dirs, objects, db, tx, day, issued >>

\* mutant: the directory is checked before the capacity
StartUsageDirFirst(p) ==
    /\ pc[p] = "s_usage"
    /\ LET totalUsage == getTotalUsageByUpdated(db.total_usage, local[p].fileSize)
       IN  IF ~ DirectoryExists(local[p].dir)
           THEN Reject(p, "DirectoryNotExists")
           ELSE IF Exceeds(totalUsage)
           THEN Reject(p, "NotEnoughTotalUsage")
           ELSE /\ local' = [ local EXCEPT ![p].totalUsage = totalUsage ]
                /\ Goto(p, "s_scan")
                /\ Continue
    /\ UNCHANGED << redis, nextUUID, dirs, objects, db, tx, day, issued >>

\* getTotalUsageByUpdated(fileSize): the read of cloud_storage_configs
StartUsage(p) ==
    /\ pc[p] = "s_usage"
    /\ LET totalUsage == getTotalUsageByUpdated(db.total_usage, local[p].fileSize)
       IN  IF Exceeds(totalUsage)
           THEN Reject(p, "NotEnoughTotalUsage")
           ELSE /\ local' = [ local EXCEPT ![p].totalUsage = totalUsage ]
                /\ Goto(p, "s_scan")
                /\ Continue
    /\ UNCHANGED << redis, nextUUID, dirs, objects, db, tx, day, issued >>

\* the end of assertConcurrentFileSize: the sum against the limit
StartSumCheck(p, uploadingFileTotalSize) ==
    IF Exceeds(uploadingFileTotalSize)
    THEN Reject(p, "NotEnoughTotalUsage")
    ELSE /\ local' = [ local EXCEPT ![p].uploadingFiles = {},
                                    ![p].keys = {}, ![p].acc = 0 ]
         /\ Goto(p, "s_dir")
         /\ Continue

\* mutant: the reduce starts from totalUsage plus the requested size again
StartScanCountsTwice(p) ==
    /\ pc[p] = "s_scan"
    /\ \E uploadingFiles \in Scan(Concurrent + 1) :
         IF uploadingFiles = {}
         THEN StartSumCheck(p, local[p].totalUsage + local[p].fileSize)
         ELSE /\ local' = [ local EXCEPT ![p].uploadingFiles = uploadingFiles,
                                         ![p].keys = uploadingFiles,
                                         ![p].acc = local[p].totalUsage
                                                      + local[p].fileSize ]
              /\ Goto(p, "s_sum")
              /\ Continue
    /\ UNCHANGED << redis, nextUUID, dirs, objects, db, tx, day, issued >>

\* assertConcurrentFileSize(totalUsage): the scan
StartScan(p) ==
    /\ pc[p] = "s_scan"
    /\ \E uploadingFiles \in Scan(Concurrent + 1) :
         IF uploadingFiles = {}
         THEN StartSumCheck(p, local[p].totalUsage)
         ELSE /\ local' = [ local EXCEPT ![p].uploadingFiles = uploadingFiles,
                                         ![p].keys = uploadingFiles,
                                         ![p].acc = local[p].totalUsage ]
              /\ Goto(p, "s_sum")
              /\ Continue
    /\ UNCHANGED << redis, nextUUID, dirs, objects, db, tx, day, issued >>

\* assertConcurrentFileSize: one round of the reduce, the hmget of one key
StartSum(p) ==
    /\ pc[p] = "s_sum"
    /\ \E current \in local[p].keys :
         LET currentFileSize == Hmget(current, "fileSize")
             acc == local[p].acc + NumberOrZero(currentFileSize)
             rest == local[p].keys \ { current }
         IN  IF rest = {}
             THEN StartSumCheck(p, acc)
             ELSE /\ local' = [ local EXCEPT ![p].keys = rest, ![p].acc = acc ]
                  /\ UNCHANGED pc
                  /\ Continue
    /\ UNCHANGED << redis, nextUUID, dirs, objects, db, tx, day, issued >>

\* CloudStorageDirectoryService.assertExists(targetDirectoryPath)
StartDir(p) ==
    /\ pc[p] = "s_dir"
    /\ IF DirectoryExists(local[p].dir)
       THEN /\ Goto(p, "s_hmset")
            /\ UNCHANGED local
            /\ Continue
       ELSE Reject(p, "DirectoryNotExists")
    /\ UNCHANGED << redis, nextUUID, dirs, objects, db, tx, day, issued >>

\* mutant: hmset without the expiry
StartHmsetNoExpiry(p) ==
    /\ pc[p] = "s_hmset"
    /\ nextUUID <= MaxFiles
    /\ LET fileUUID == nextUUID
           fileResourceType == getFileResourceTypeByFileName(local[p].fileName)
           ossFilePath == generateOSSFilePath(local[p].fileName, fileUUID, day)
       IN  /\ redis' = ( fileUUID :>
                           [ fileName |-> local[p].fileName,
                             fileSize |-> NumToStr(local[p].fileSize),
                             targetDirectoryPath |-> local[p].dir,
                             fileResourceType |-> fileResourceType,
                             ttl |-> 0 ] ) @@ redis
           /\ issued' = ( fileUUID :>
                            [ ossFilePath |-> ossFilePath,
                              fileName |-> local[p].fileName,
                              fileSize |-> local[p].fileSize,
                              targetDirectoryPath |-> local[p].dir,
                              fileResourceType |-> fileResourceType ] ) @@ issued
           /\ Return(p, [ local[p] EXCEPT !.fileUUID = fileUUID ], "ok")
    /\ nextUUID' = nextUUID + 1
    /\ UNCHANGED << dirs, objects, db, tx, day >>

\* the classification, v4(), RedisService.hmset(key, {...}, 60 * 20),
\* generateOSSFilePath, policyTemplate and the return
StartHmset(p) ==
    /\ pc[p] = "s_hmset"
    /\ nextUUID <= MaxFiles
    /\ LET fileUUID == nextUUID
           fileResourceType == getFileResourceTypeByFileName(local[p].fileName)
           ossFilePath == generateOSSFilePath(local[p].fileName, fileUUID, day)
       IN  /\ redis' = ( fileUUID :>
                           [ fileName |-> local[p].fileName,
                             fileSize |-> NumToStr(local[p].fileSize),
                             targetDirectoryPath |-> local[p].dir,
                             fileResourceType |-> fileResourceType,
                             ttl |-> SessionTTL ] ) @@ redis
           /\ issued' = ( fileUUID :>
                            [ ossFilePath |-> ossFilePath,
                              fileName |-> local[p].fileName,
                              fileSize |-> local[p].fileSize,
                              targetDirectoryPath |-> local[p].dir,
                              fileResourceType |-> fileResourceType ] ) @@ issued
           /\ Return(p, [ local[p] EXCEPT !.fileUUID = fileUUID ], "ok")
    /\ nextUUID' = nextUUID + 1
    /\ UNCHANGED << dirs, objects, db, tx, day >>

\* ------------------------------------------------- the relational store
FileIds(rows) == { r.file_uuid : r \in rows }

\* a row another request's open transaction has written is locked until
\* that transaction ends: the user's cloud_storage_configs row, and the
\* cloud_storage_files / _user_files rows of fileUUID
RowLocked(p, fileUUID) ==
    \E q \in Procs \ {p} :
        \/ tx[q].configs # {}
        \/ fileUUID \in FileIds(tx[q].files) \cup FileIds(tx[q].userFiles)

\* file_uuid is unique in cloud_storage_files
DuplicateFile(fileUUID) == fileUUID \in FileIds(db.files)

\* the commit of a transaction: all of its writes at once; orUpdate replaces
\* total_usage of the user's row
DBCommit(t) ==
    [ files |-> db.files \cup t.files,
      userFiles |-> db.userFiles \cup t.userFiles,
      total_usage |-> IF t.configs = {} THEN db.total_usage
                      ELSE (CHOOSE c \in t.configs : TRUE).total_usage,
      upserts |-> db.upserts \cup
                  IF t.configs = {} THEN {} ELSE FileIds(t.files \cup t.userFiles) ]

\* --------------------------------------------------------------- finish
\* finish is called and runs getFileInfoByRedis(fileUUID)
FinishCall(p, fileUUID) ==
    /\ pc[p] = "idle"
    /\ fileUUID < nextUUID
    /\ LET info == getFileInfoByRedis(HmgetFileInfo(fileUUID))
           me == [ NoLocal EXCEPT !.op = "finish", !.fileUUID = fileUUID ]
       IN  IF info.found
           THEN /\ local' = [ local EXCEPT ![p] =
                                [ me EXCEPT !.fileName = info.fileName,
                                            !.fileSize = info.fileSize,
                                            !.dir = info.targetDirectoryPath,
                                            !.resType = info.fileResourceType ] ]
                /\ Goto(p, "f_dir")
                /\ Continue
           ELSE Return(p, me, "FileNotFound")
    /\ UNCHANGED << redis, nextUUID, dirs, objects, db, tx, day, issued >>

\* mutant: a finish whose directory is gone drops the session
FinishDirCleanup(p) ==
    /\ pc[p] = "f_dir"
    /\ IF DirectoryExists(local[p].dir)
       THEN /\ Goto(p, "f_oss")
            /\ UNCHANGED << local, redis >>
            /\ Continue
       ELSE /\ redis' = RedisDel(local[p].fileUUID)
            /\ Reject(p, "DirectoryNotExists")
    /\ UNCHANGED << nextUUID, dirs, objects, db, tx, day, issued >>

\* CloudStorageDirectoryService.assertExists(targetDirectoryPath)
FinishDir(p) ==
    /\ pc[p] = "f_dir"
    /\ IF DirectoryExists(local[p].dir)
       THEN /\ Goto(p, "f_oss")
            /\ UNCHANGED local
            /\ Continue
       ELSE Reject(p, "DirectoryNotExists")
    /\ UNCHANGED << redis, nextUUID, dirs, objects, db, tx, day, issued >>

\* oss.assertExists throws on FALSE
ossAssertExists(ossFilePath) == ossFilePath \in objects

\* mutant: the path is derived but its existence is not checked
FinishOssUnchecked(p) ==
    /\ pc[p] = "f_oss"
    /\ local' = [ local EXCEPT ![p].ossFilePath =
                    generateOSSFilePath(local[p].fileName, local[p].fileUUID, day) ]
    /\ Goto(p, "f_usage")
    /\ Continue
    /\ UNCHANGED << redis, nextUUID, dirs, objects, db, tx, day, issued >>

\* generateOSSFilePath(fileName, fileUUID) and oss.assertExists(ossFilePath)
FinishOss(p) ==
    /\ pc[p] = "f_oss"
    /\ LET ossFilePath == generateOSSFilePath(local[p].fileName, local[p].fileUUID, day)
       IN  IF ossAssertExists(ossFilePath)
           THEN /\ local' = [ local EXCEPT ![p].ossFilePath = ossFilePath ]
                /\ Goto(p, "f_usage")
                /\ Continue
           ELSE Reject(p, "OSSFileNotFound")
    /\ UNCHANGED << redis, nextUUID, dirs, objects, db, tx, day, issued >>

\* mutant: finish writes the usage without the capacity check
FinishUsageUnchecked(p) ==
    /\ pc[p] = "f_usage"
    /\ local' = [ local EXCEPT ![p].totalUsage =
                    getTotalUsageByUpdated(db.total_usage, local[p].fileSize) ]
    /\ Goto(p, "f_write")
    /\ Continue
    /\ UNCHANGED << redis, nextUUID, dirs, objects, db, tx, day, issued >>

\* getTotalUsageByUpdated(fileSize)
FinishUsage(p) ==
    /\ pc[p] = "f_usage"
    /\ LET totalUsage == getTotalUsageByUpdated(db.total_usage, local[p].fileSize)
       IN  IF Exceeds(totalUsage)
           THEN Reject(p, "NotEnoughTotalUsage")
           ELSE /\ local' = [ local EXCEPT ![p].totalUsage = totalUsage ]
                /\ Goto(p, "f_write")
                /\ Continue
    /\ UNCHANGED << redis, nextUUID, dirs, objects, db, tx, day, issued >>

WriteFailures == { "none", "files", "userFiles", "configs" }

\* Promise.all([insertFile(...), updateTotalUsage(totalUsage)]): the three
\* writes go to the request's transaction; the one named by fail is refused
\* by the store (a duplicate file_uuid refuses the files insert)
FinishWrite(p, fail) ==
    /\ pc[p] = "f_write"
    /\ ~ RowLocked(p, local[p].fileUUID)
    /\ LET rows == insertFile([ fileName |-> local[p].fileName,
                                fileSize |-> local[p].fileSize,
                                fileURL |-> << OssDomain, local[p].ossFilePath >>,
                                fileUUID |-> local[p].fileUUID,
                                directoryPath |-> local[p].dir,
                                fileResourceType |-> local[p].resType ])
           usage == updateTotalUsage(local[p].totalUsage)
           failed == IF DuplicateFile(local[p].fileUUID) THEN "files" ELSE fail
       IN  /\ tx' = [ tx EXCEPT ![p] =
                        [ files |-> IF failed = "files" THEN {} ELSE rows.files,
                          userFiles |-> IF failed = "userFiles" THEN {} ELSE rows.userFiles,
                          configs |-> IF failed = "configs" THEN {} ELSE usage ] ]
           /\ IF failed = "none"
              THEN /\ Goto(p, "f_del")
                   /\ UNCHANGED local
              ELSE /\ Goto(p, "f_rollback")
                   /\ UNCHANGED local
           /\ Continue
    /\ UNCHANGED << redis, nextUUID, dirs, objects, db, day, issued >>

\* mutant: the session is not deleted
FinishDelSkipped(p) ==
    /\ pc[p] = "f_del"
    /\ Goto(p, "f_commit")
    /\ Continue
    /\ UNCHANGED << local, redis, nextUUID, dirs, objects, db, tx, day, issued >>

\* RedisService.del(key)
FinishDel(p) ==
    /\ pc[p] = "f_del"
    /\ redis' = RedisDel(local[p].fileUUID)
    /\ Goto(p, "f_commit")
    /\ Continue
    /\ UNCHANGED << local, nextUUID, dirs, objects, db, tx, day, issued >>

\* finish returned: the caller commits the request's transaction
Commit(p) ==
    /\ pc[p] = "f_commit"
    /\ db' = DBCommit(tx[p])
    /\ tx' = [ tx EXCEPT ![p] = NoTx ]
    /\ Return(p, local[p], "ok")
    /\ UNCHANGED << redis, nextUUID, dirs, objects, day, issued >>

\* finish threw in Promise.all: the caller rolls the transaction back
Rollback(p) ==
    /\ pc[p] = "f_rollback"
    /\ tx' = [ tx EXCEPT ![p] = NoTx ]
    /\ Reject(p, "DBError")
    /\ UNCHANGED << redis, nextUUID, dirs, objects, db, day, issued >>

\* ---------------------------------------------------------- environment
\* the TTL of a key runs out: keys all get the same TTL, so the oldest live
\* key (fileUUIDs are issued in the order of the hmset calls) goes first
Expire(fileUUID) ==
    /\ fileUUID \in Live
    /\ redis[fileUUID].ttl > 0
    /\ \A k \in Live : fileUUID <= k
    /\ redis' = RedisDel(fileUUID)
    /\ Continue
    /\ UNCHANGED << pc, local, nextUUID, dirs, objects, db, tx, day, issued >>

\* the date of Date.now() changes
Midnight ==
    /\ day < MaxDay
    /\ day' = day + 1
    /\ Continue
    /\ UNCHANGED << pc, local, redis, nextUUID, dirs, objects, db, tx, issued >>

\* the client uploads to the path start returned, with the signed policy
Upload(fileUUID) ==
    /\ fileUUID \in DOMAIN issued
    /\ issued[fileUUID].ossFilePath \notin objects
    /\ objects' = objects \cup { issued[fileUUID].ossFilePath }
    /\ Continue
    /\ UNCHANGED << pc, local, redis, nextUUID, dirs, db, tx, day, issued >>

\* the user deletes a directory
RemoveDirectory(directoryPath) ==
    /\ directoryPath \in dirs
    /\ dirs' = dirs \ { directoryPath }
    /\ Continue
    /\ UNCHANGED << pc, local, redis, nextUUID, objects, db, tx, day, issued >>

\* a request for start arrives
StartRequest ==
    \E p \in Procs, fileName \in FileNames, fileSize \in FileSizes,
       targetDirectoryPath \in DirectoryPaths :
        StartCall(p, fileName, fileSize, targetDirectoryPath)

\* a request for finish arrives
FinishRequest ==
    \E p \in Procs, fileUUID \in FileUUIDs \cup { ForgedUUID } :
        FinishCall(p, fileUUID)

\* every other step: a request in flight goes on, the environment moves
Step ==
    \/ \E p \in Procs : StartUsage(p)
    \/ \E p \in Procs : StartScan(p)
    \/ \E p \in Procs : StartSum(p)
    \/ \E p \in Procs : StartDir(p)
    \/ \E p \in Procs : StartHmset(p)
    \/ \E p \in Procs : FinishDir(p)
    \/ \E p \in Procs : FinishOss(p)
    \/ \E p \in Procs : FinishUsage(p)
    \/ \E p \in Procs, fail \in WriteFailures : FinishWrite(p, fail)
    \/ \E p \in Procs : FinishDel(p)
    \/ \E p \in Procs : Commit(p)
    \/ \E p \in Procs : Rollback(p)
    \/ \E fileUUID \in FileUUIDs : Expire(fileUUID)
    \/ \E fileUUID \in FileUUIDs : Upload(fileUUID)
    \/ \E directoryPath \in DirectoryPaths : RemoveDirectory(directoryPath)

Next == StartRequest \/ FinishRequest \/ Step

\* The date is read by generateOSSFilePath alone.  Spec holds it fixed;
\* SpecMidnight lets it change between any two steps.
Spec == Init /\ [][Next]_vars

\* SpecMidnight follows the sessions of the first MidnightFiles fileUUIDs
MidnightFiles == 2

StartRequestMidnight ==
    /\ nextUUID + StartsInFlight <= MidnightFiles
    /\ StartRequest

NextMidnight == StartRequestMidnight \/ FinishRequest \/ Step \/ Midnight

SpecMidnight == Init /\ [][NextMidnight]_vars

\* the requests in flight
Busy == { p \in Procs : pc[p] # "idle" }

\* SpecSequential: the user's calls do not interleave, a call arrives when
\* none is in flight
StartRequestSequential ==
    /\ Busy = {}
    /\ StartRequest

FinishRequestSequential ==
    /\ Busy = {}
    /\ FinishRequest

NextSequential == StartRequestSequential \/ FinishRequestSequential \/ Step

SpecSequential == Init /\ [][NextSequential]_vars

\* SpecFair follows the sessions of the first FairFiles fileUUIDs, and a
\* key with a TTL does not stay in Redis for ever
FairFiles == 2

StartRequestFair ==
    /\ nextUUID + StartsInFlight <= FairFiles
    /\ StartRequest

NextFair == StartRequestFair \/ FinishRequest \/ Step

SpecFair ==
    /\ Init
    /\ [][NextFair]_vars
    /\ WF_vars(\E fileUUID \in FileUUIDs : Expire(fileUUID))

\* ------------------------------------------------------------ readings
Usage == NumberOrZero(db.total_usage)

RECURSIVE SumFileSizes(_)
SumFileSizes(rows) ==
    IF rows = {} THEN 0
    ELSE LET r == CHOOSE x \in rows : TRUE
         IN  r.file_size + SumFileSizes(rows \ { r })

Recorded(fileUUID) == fileUUID \in FileIds(db.files)

\* ------------------------------------------------------------- claims
\* C1: the number of live UploadSessions of the user never exceeds
\* concurrentLimit.
C1_LiveSessionsWithinLimit == Cardinality(Live) <= Concurrent

\* C2: the durable totalUsageBytes equals the sum of the fileSize of all
\* FileRecords that successful finish calls have created.
C2_UsageIsSumOfFileSizes == Usage = SumFileSizes(db.files)

\* C3 as stated: a start or finish call that ends while
\* usage + fileSize > totalSizeLimit ends with NotEnoughTotalUsage, whichever
\* of its checks it ends at.
C3_OverCapacityAlwaysNotEnough ==
    [][ /\ \A p \in Procs, fileName \in FileNames, fileSize \in FileSizes,
              targetDirectoryPath \in DirectoryPaths :
            ( StartCall(p, fileName, fileSize, targetDirectoryPath)
              /\ Usage + fileSize > TotalSize
              /\ pc'[p] = "idle" )
            => returned'.result = "NotEnoughTotalUsage"
        /\ \A p \in Procs :
            ( ( FinishDir(p) \/ FinishOss(p) \/ FinishUsage(p) )
              /\ Usage + local[p].fileSize > TotalSize
              /\ pc'[p] = "idle" )
            => returned'.result = "NotEnoughTotalUsage" ]_vars

\* C3 amended: when the durable usage that the capacity check reads plus
\* fileSize exceeds totalSizeLimit, a start that has passed the concurrency
\* check, and a finish that has passed the session, directory and object
\* checks, rejects with NotEnoughTotalUsage.
C3_CapacityCheckRejects ==
    [][ \A p \in Procs :
          ( ( StartUsage(p) \/ FinishUsage(p) )
            /\ Usage + local[p].fileSize > TotalSize )
          => /\ pc'[p] = "idle"
             /\ returned' = [ op |-> local[p].op, fileUUID |-> local[p].fileUUID,
                              result |-> "NotEnoughTotalUsage" ] ]_vars

\* C3 witness: a finish was rejected for capacity
C3_Witness ==
    /\ returned.op = "finish"
    /\ returned.result = "NotEnoughTotalUsage"
    /\ returned.fileUUID \in Live

\* C4: with at least concurrentLimit live sessions, a further start rejects
\* with UploadConcurrentLimit and creates no session.
C4_StartAtLimitRejects ==
    [][ \A p \in Procs, fileName \in FileNames, fileSize \in FileSizes,
           targetDirectoryPath \in DirectoryPaths :
          ( StartCall(p, fileName, fileSize, targetDirectoryPath)
            /\ Cardinality(Live) >= Concurrent )
          => /\ returned'.op = "start"
             /\ returned'.result = "UploadConcurrentLimit"
             /\ pc'[p] = "idle"
             /\ redis' = redis
             /\ nextUUID' = nextUUID ]_vars

\* C4 witness: concurrentLimit sessions are live and a start was just rejected
C4_Witness ==
    /\ returned.op = "start"
    /\ returned.result = "UploadConcurrentLimit"
    /\ Cardinality(Live) = Concurrent

\* C5: the slots freed are the slots handed out: a start passes the
\* concurrency check only while the live sessions, together with the starts
\* that have passed the check and not yet stored their session, leave a slot.
C5_OneStartPerFreedSlot ==
    [][ \A p \in Procs :
          ( pc[p] = "idle" /\ pc'[p] = "s_usage" )
          => Cardinality(Live) + StartsInFlight < Concurrent ]_vars

\* C6: finish with a fileUUID that has no live session (never issued, or
\* expired) rejects with FileNotFound and writes nothing durable.
C6_FinishWithoutSessionNotFound ==
    [][ \A p \in Procs, fileUUID \in FileUUIDs \cup { ForgedUUID } :
          ( FinishCall(p, fileUUID) /\ fileUUID \notin Live )
          => /\ returned' = [ op |-> "finish", fileUUID |-> fileUUID,
                              result |-> "FileNotFound" ]
             /\ pc'[p] = "idle"
             /\ db' = db
             /\ tx' = tx ]_vars

\* a session that is gone although no finish removed it: the TTL did
ExpiredUnfinished(fileUUID) ==
    /\ fileUUID \in DOMAIN issued
    /\ fileUUID \notin Live
    /\ ~ Recorded(fileUUID)
    /\ \A p \in Procs : pc[p] = "f_commit" => local[p].fileUUID # fileUUID

\* C6 witness: a finish for an expired session was just rejected
C6_Witness ==
    /\ returned.op = "finish"
    /\ returned.result = "FileNotFound"
    /\ ExpiredUnfinished(returned.fileUUID)

\* the object path of a committed or pending cloud_storage_files row
RowPath(row) == row.file_url[2]

\* C7: finish gets past the object check only if the object exists at the
\* path it derives; if the object is absent, finish rejects there and no
\* FileRecord, UserFileLink or UsageRecord is created or changed.
C7_FinishNeedsObject ==
    /\ [][ \A p \in Procs :
             FinishOss(p)
             => IF generateOSSFilePath(local[p].fileName, local[p].fileUUID, day)
                   \in objects
                THEN pc'[p] = "f_usage"
                ELSE /\ pc'[p] = "idle"
                     /\ returned' = [ op |-> "finish",
                                      fileUUID |-> local[p].fileUUID,
                                      result |-> "OSSFileNotFound" ]
                     /\ db' = db
                     /\ tx' = tx ]_vars
    /\ [] ( \A row \in db.files : RowPath(row) \in objects )

\* C7 witness: a finish was just rejected because the object is absent
C7_Witness ==
    /\ returned.op = "finish"
    /\ returned.result = "OSSFileNotFound"
    /\ ~ Recorded(returned.fileUUID)
    /\ db.files # {}

\* C8: a successful finish of a session of size s leaves totalUsageBytes
\* exactly s larger than it was, a FileRecord with that fileUUID, and no
\* session.
C8_FinishAddsFileSize ==
    [][ \A p \in Procs :
          Commit(p)
          => /\ NumberOrZero(db'.total_usage) = Usage + local[p].fileSize
             /\ local[p].fileUUID \in FileIds(db'.files)
             /\ local[p].fileUUID \notin DOMAIN redis' ]_vars

\* C9: the FileRecord and the usage upsert of a fileUUID are committed at most
\* once, also by concurrent finish calls, and a finish called for a fileUUID
\* that already has its FileRecord rejects with FileNotFound.
C9_FinishSucceedsOnce ==
    [][ /\ \A p \in Procs :
             Commit(p)
             => /\ ~ Recorded(local[p].fileUUID)
                /\ local[p].fileUUID \notin db.upserts
                /\ returned' = [ op |-> "finish", fileUUID |-> local[p].fileUUID,
                                 result |-> "ok" ]
        /\ \A p \in Procs, fileUUID \in FileUUIDs :
             ( FinishCall(p, fileUUID) /\ Recorded(fileUUID) )
             => /\ pc'[p] = "idle"
                /\ returned' = [ op |-> "finish", fileUUID |-> fileUUID,
                                 result |-> "FileNotFound" ] ]_vars

\* C9 witness: of two concurrent finish calls for one fileUUID, one has
\* succeeded and the other has just been refused the insert
C9_Witness ==
    /\ returned.op = "finish"
    /\ returned.result = "DBError"
    /\ Recorded(returned.fileUUID)

\* C10: in every durable state the FileRecord, the UserFileLink and the
\* usage upsert of a fileUUID are all applied or none is.
C10_WritesAllOrNone ==
    \A fileUUID \in FileUUIDs :
        /\ Recorded(fileUUID) <=> fileUUID \in FileIds(db.userFiles)
        /\ Recorded(fileUUID) <=> fileUUID \in db.upserts

\* C10 witness: one of the three writes of a finish failed, after another
\* finish had committed all of its three
C10_Witness ==
    /\ returned.op = "finish"
    /\ returned.result = "DBError"
    /\ ~ Recorded(returned.fileUUID)
    /\ returned.fileUUID \notin FileIds(db.userFiles) \cup db.upserts
    /\ db.upserts # {}

\* the fileSize a live session declares
SessionSize(fileUUID) == NumberOrZero(Hmget(fileUUID, "fileSize"))

RECURSIVE SumSessionSizes(_)
SumSessionSizes(keys) ==
    IF keys = {} THEN 0
    ELSE LET k == CHOOSE x \in keys : TRUE
         IN  SessionSize(k) + SumSessionSizes(keys \ { k })

\* the largest fileSize a live session declares
MaxSessionSize ==
    IF Live = {} THEN 0
    ELSE CHOOSE n \in { SessionSize(k) : k \in Live } :
            \A k \in Live : SessionSize(k) <= n

\* C11: the object path finish derives for a session equals the path start
\* returned for it, whatever the dates of the two calls.
C11_FinishDerivesStartPath ==
    [][ \A p \in Procs :
          FinishOss(p) =>
            generateOSSFilePath(local[p].fileName, local[p].fileUUID, day)
                = issued[local[p].fileUUID].ossFilePath ]_vars

\* C12: usage plus the declared sizes of the live sessions exceeds
\* totalSizeLimit by no more than the size of one admitted file.
C12_OverAdmissionOneFile ==
    Usage + SumSessionSizes(Live) <= TotalSize + MaxSessionSize

\* C13: the durable totalUsageBytes never decreases.
C13_UsageNeverDecreases ==
    [][ NumberOrZero(db'.total_usage) >= Usage ]_vars

\* C14: every FileRecord carries a fileId that a successful start issued and
\* the fileName, fileSize, directoryPath and resourceType of that start's
\* session, and a FileRecord appears only when a finish for it succeeds.
C14_RecordsComeFromSessions ==
    /\ [] ( \A row \in db.files :
              /\ row.file_uuid \in DOMAIN issued
              /\ row.file_name = issued[row.file_uuid].fileName
              /\ row.file_size = issued[row.file_uuid].fileSize
              /\ row.directory_path = issued[row.file_uuid].targetDirectoryPath
              /\ row.resource_type = issued[row.file_uuid].fileResourceType )
    /\ [][ \A row \in db'.files \ db.files :
              /\ \E p \in Procs : Commit(p)
              /\ returned' = [ op |-> "finish", fileUUID |-> row.file_uuid,
                               result |-> "ok" ] ]_vars

\* C14 witness: a finish has just succeeded and its FileRecord exists, while
\* another issued fileUUID has none
C14_Witness ==
    /\ returned.op = "finish"
    /\ returned.result = "ok"
    /\ Recorded(returned.fileUUID)
    /\ \E fileUUID \in DOMAIN issued : ~ Recorded(fileUUID)

\* C15: start checks in the order concurrency, capacity, directory: at the
\* concurrency limit it ends with UploadConcurrentLimit and over capacity with
\* NotEnoughTotalUsage whatever the later checks would say, and
\* DirectoryNotExists comes from the directory step alone.
C15_StartFailsFast ==
    [][ \A p \in Procs :
          /\ ( /\ \E fileName \in FileNames, fileSize \in FileSizes,
                     targetDirectoryPath \in DirectoryPaths :
                       StartCall(p, fileName, fileSize, targetDirectoryPath)
               /\ Cardinality(Live) >= Concurrent )
             => returned'.result = "UploadConcurrentLimit"
          /\ ( StartUsage(p) /\ Usage + local[p].fileSize > TotalSize )
             => returned'.result = "NotEnoughTotalUsage"
          /\ ( /\ pc[p] \in StartPcs
               /\ pc'[p] = "idle"
               /\ returned'.result = "DirectoryNotExists" )
             => pc[p] = "s_dir" ]_vars

\* C15 witness: a start ended with UploadConcurrentLimit while the directory
\* is gone and the live sessions leave no capacity for another file
C15_Witness ==
    /\ returned.op = "start"
    /\ returned.result = "UploadConcurrentLimit"
    /\ dirs = {}
    /\ Usage + SumSessionSizes(Live) >= TotalSize

\* the sizes start declared for the sessions of keys
RECURSIVE SumIssuedSizes(_)
SumIssuedSizes(keys) ==
    IF keys = {} THEN 0
    ELSE LET k == CHOOSE x \in keys : TRUE
         IN  issued[k].fileSize + SumIssuedSizes(keys \ { k })

C17_SequentialWithinLimit ==
    /\ Usage + SumSessionSizes(Live) <= TotalSize
    /\ \A p \in Procs :
         /\ pc[p] = "s_scan" => local[p].totalUsage = Usage + local[p].fileSize
         /\ pc[p] = "s_sum" =>
              LET read == local[p].uploadingFiles \ local[p].keys
              IN  /\ local[p].acc >= Usage + local[p].fileSize + SumSessionSizes(read)
                  /\ local[p].acc <= Usage + local[p].fileSize + SumIssuedSizes(read)

\* C17 witness: a start has just succeeded on top of committed usage and
\* fills the capacity exactly
C17_Witness ==
    /\ returned.op = "start"
    /\ returned.result = "ok"
    /\ Usage > 0
    /\ Usage + SumSessionSizes(Live) = TotalSize

\* C18: under fair expiry every live session is eventually removed, a removed
\* session does not come back, and a finish for it ends with FileNotFound.
C18_SessionsEventuallyRemoved ==
    /\ \A fileUUID \in FileUUIDs :
         (fileUUID \in Live) ~> (fileUUID \notin Live)
    /\ [][ \A fileUUID \in DOMAIN issued :
             fileUUID \notin Live => fileUUID \notin DOMAIN redis' ]_vars
    /\ [][ \A p \in Procs, fileUUID \in DOMAIN issued :
             ( FinishCall(p, fileUUID) /\ fileUUID \notin Live )
             => returned' = [ op |-> "finish", fileUUID |-> fileUUID,
                              result |-> "FileNotFound" ] ]_vars

\* C18 witness: a session whose object was never uploaded, so that no finish
\* could complete it, has gone by expiry, and a later finish for it has just
\* ended with FileNotFound
C18_Witness ==
    /\ returned.op = "finish"
    /\ returned.result = "FileNotFound"
    /\ returned.fileUUID \in DOMAIN issued
    /\ returned.fileUUID \notin Live
    /\ ~ Recorded(returned.fileUUID)
    /\ issued[returned.fileUUID].ossFilePath \notin objects

\* C19: the durable totalUsageBytes never exceeds totalSizeLimit.
C19_UsageWithinLimit == Usage <= TotalSize

\* C19 witness: a finish has just committed and the usage is at the limit
C19_Witness ==
    /\ returned.op = "finish"
    /\ returned.result = "ok"
    /\ Usage = TotalSize

\* C20: a start writes nothing durable and stores a session only when it
\* succeeds, exactly one; a finish that ends at its session, directory,
\* object or capacity check writes nothing durable and leaves the sessions
\* as they are.
C20_RejectedCallsChangeNothing ==
    [][ \A p \in Procs :
          /\ ( \/ \E fileName \in FileNames, fileSize \in FileSizes,
                       targetDirectoryPath \in DirectoryPaths :
                         StartCall(p, fileName, fileSize, targetDirectoryPath)
               \/ /\ pc[p] \in StartPcs
                  /\ pc'[p] # pc[p] \/ local'[p] # local[p] )
             => /\ db' = db
                /\ tx' = tx
                /\ IF returned'.result = "ok"
                   THEN /\ returned'.fileUUID \notin Live
                        /\ DOMAIN redis' = Live \cup { returned'.fileUUID }
                        /\ \A k \in Live : redis'[k] = redis[k]
                   ELSE redis' = redis /\ issued' = issued
          /\ ( /\ \/ \E fileUUID \in FileUUIDs \cup { ForgedUUID } :
                       FinishCall(p, fileUUID)
                  \/ pc[p] \in { "f_dir", "f_oss", "f_usage" }
               /\ pc'[p] = "idle" )
             => /\ returned'.result \in { "FileNotFound", "DirectoryNotExists",
                                         "OSSFileNotFound", "NotEnoughTotalUsage" }
                /\ db' = db
                /\ tx' = tx
                /\ redis' = redis ]_vars

\* C20 witness: a finish has just been rejected at the directory check, its
\* session is still live and it has no FileRecord
C20_Witness ==
    /\ returned.op = "finish"
    /\ returned.result = "DirectoryNotExists"
    /\ returned.fileUUID \in Live
    /\ ~ Recorded(returned.fileUUID)
    /\ returned.fileUUID \notin FileIds(db.userFiles) \cup db.upserts

====
